---- MODULE Spec2Model ----
(***************************************************************************)
(* Model of tensorflow_transform/schema_inference.py: the override and     *)
(* annotation registries kept in graph collections, feature-spec inference *)
(* and the assembly of a schema from them.                                 *)
(*                                                                         *)
(* Strings whose structure the code inspects (tensor names) are sequences  *)
(* of tokens; byte strings are sequences; Python's None is the empty       *)
(* sequence <<>> and a present value v is <<v>>.                           *)
(***************************************************************************)
EXTENDS Integers, Sequences, FiniteSets, TLC

VARIABLES
    tft_schema_override_tensor,             \* graph collection (line 148)
    tft_schema_override_min,                \* graph collection (line 149)
    tft_schema_override_max,                \* graph collection (line 150)
    tft_schema_override_annotation_tensor,  \* graph collection (line 154)
    tft_schema_override_annotation_type,    \* graph collection (line 155)
    tft_schema_override_annotation_proto,   \* graph collection (line 156)
    ret                                     \* what the most recent call did

overrideColls == <<tft_schema_override_tensor, tft_schema_override_min,
                   tft_schema_override_max>>
annotationColls == <<tft_schema_override_annotation_tensor,
                     tft_schema_override_annotation_type,
                     tft_schema_override_annotation_proto>>
vars == <<tft_schema_override_tensor, tft_schema_override_min,
          tft_schema_override_max, tft_schema_override_annotation_tensor,
          tft_schema_override_annotation_type,
          tft_schema_override_annotation_proto, ret>>

-----------------------------------------------------------------------------
(* Bounds of the model.                                                    *)
\* The most entries the two registries hold together.
MaxRegistrations == 3
\* The most features given to feature-spec inference alone.
MaxFeatures == 2

-----------------------------------------------------------------------------
(* Python values.                                                          *)
None == <<>>

Range(s) == {s[i] : i \in 1..Len(s)}

\* A static shape: rank unknown, or one entry per dimension, each None or <<n>>.
UnknownShape == [rankKnown |-> FALSE, dims |-> <<>>]
TensorShape(dims) == [rankKnown |-> TRUE, dims |-> dims]

\* shape.ndims: None for an unknown rank.
ndims(shape) == IF shape.rankKnown THEN <<Len(shape.dims)>> ELSE None

\* A dense tf.Tensor.  Tensor names are unique in a graph, so the record
\* identifies the tensor.
Tensor(name, dtype, shape) ==
    [kind |-> "Tensor", name |-> name, dtype |-> dtype, shape |-> shape,
     values |-> <<>>, bytes |-> <<>>]

\* A tf.SparseTensor: its shape is that of dense_shape, values is a dense Tensor.
SparseTensor(values, shape) ==
    [kind |-> "SparseTensor", name |-> <<>>, dtype |-> values.dtype,
     shape |-> shape, values |-> <<values>>, bytes |-> <<>>]

\* A tensor-like object (it has a dtype and a shape) that is neither of the two.
RaggedTensor(dtype, shape) ==
    [kind |-> "RaggedTensor", name |-> <<>>, dtype |-> dtype, shape |-> shape,
     values |-> <<>>, bytes |-> <<>>]

\* A Python bytes literal.
Literal(bytes) ==
    [kind |-> "Literal", name |-> <<>>, dtype |-> "", shape |-> UnknownShape,
     values |-> <<>>, bytes |-> bytes]

isTensor(x) == x.kind = "Tensor"
isSparseTensor(x) == x.kind = "SparseTensor"

-----------------------------------------------------------------------------
(* The module's constants.                                                 *)
\* 'tft_schema_override_global_sentinel', as tokens.
TF_METADATA_EXTRA_ANNOTATION_GLOBAL ==
    <<"tft_schema_override", "_", "global", "_", "sentinel">>

-----------------------------------------------------------------------------
(* String operations on names.                                             *)
RECURSIVE split(_, _)
\* name.split(sep): the segments between occurrences of sep.
split(name, sep) ==
    IF \A i \in 1..Len(name) : name[i] # sep
    THEN <<name>>
    ELSE LET i == CHOOSE j \in 1..Len(name) :
                      name[j] = sep /\ \A k \in 1..(j - 1) : name[k] # sep
         IN <<SubSeq(name, 1, i - 1)>> \o split(SubSeq(name, i + 1, Len(name)), sep)

\* s.startswith(prefix)
startswith(s, prefix) ==
    Len(s) >= Len(prefix) /\ SubSeq(s, 1, Len(prefix)) = prefix

\* The name a scope path gives an op called base: 'a/b/base'.
RECURSIVE scoped(_, _)
scoped(scope, base) ==
    IF scope = <<>> THEN base
    ELSE <<Head(scope), "/">> \o scoped(Tail(scope), base)

-----------------------------------------------------------------------------
(* The tensors of the graph under construction.                            *)
\* A dense int64 feature of shape (None, 1).
tInt == Tensor(<<"x", ":0">>, "int64", TensorShape(<<None, <<1>>>>))
\* The value stream of a sparse int64 feature, and the feature.
spValues == Tensor(<<"sp", "/", "values", ":0">>, "int64", TensorShape(<<None>>))
spInt == SparseTensor(spValues, TensorShape(<<None, None>>))
\* A dense string feature of shape (None,) that the user named
\* 'tft_schema_override_global_sentinel_id'.
tNamed == Tensor(TF_METADATA_EXTRA_ANNOTATION_GLOBAL \o <<"_", "id", ":0">>,
                 "string", TensorShape(<<None>>))
\* A float32 scalar.
tScalar == Tensor(<<"s", ":0">>, "float32", TensorShape(<<>>))
\* Deferred bounds: int64 scalars that evaluate to 0, 4 and 9.
cZero == Tensor(<<"min", ":0">>, "int64", TensorShape(<<>>))
cFour == Tensor(<<"max", ":0">>, "int64", TensorShape(<<>>))
cNine == Tensor(<<"max", "_", "1", ":0">>, "int64", TensorShape(<<>>))
\* Deferred payloads: string scalars that evaluate to b'q' and to b''.
pFull == Tensor(<<"proto", ":0">>, "string", TensorShape(<<>>))
pEmpty == Tensor(<<"proto", "_", "1", ":0">>, "string", TensorShape(<<>>))

\* session.run(tensor) for one tensor of the graph.
run(tensor) ==
    CASE tensor = cZero -> 0
      [] tensor = cFour -> 4
      [] tensor = cNine -> 9
      [] tensor = pFull -> <<"q">>
      [] tensor = pEmpty -> <<>>

-----------------------------------------------------------------------------
(* _feature_spec_from_batched_tensors                                      *)
VarLenFeature(dtype) == [kind |-> "VarLenFeature", shape |-> <<>>, dtype |-> dtype]
FixedLenFeature(shape, dtype) ==
    [kind |-> "FixedLenFeature", shape |-> shape, dtype |-> dtype]

\* shape.as_list()[1:]
nonBatchDims(shape) == SubSeq(shape.dims, 2, Len(shape.dims))

\* A variant that lets a scalar through: only an unknown rank is refused.
denseFeatureSpec_scalarAccepted(tensor) ==
    LET shape == tensor.shape IN
    IF ndims(shape) = None
    THEN [error |-> "ValueError", spec |-> None]
    ELSE IF \E i \in 1..Len(nonBatchDims(shape)) : nonBatchDims(shape)[i] = None
    THEN [error |-> "ValueError", spec |-> None]
    ELSE [error |-> "",
          spec |-> <<FixedLenFeature(nonBatchDims(shape), tensor.dtype)>>]

\* The dense branch, lines 70-80: the error raised, or "" and the feature spec.
denseFeatureSpec(tensor) ==
    LET shape == tensor.shape IN
    IF ndims(shape) \in {None, <<0>>}
    THEN [error |-> "ValueError", spec |-> None]
    ELSE IF \E i \in 1..Len(nonBatchDims(shape)) : nonBatchDims(shape)[i] = None
    THEN [error |-> "ValueError", spec |-> None]
    ELSE [error |-> "",
          spec |-> <<FixedLenFeature(nonBatchDims(shape), tensor.dtype)>>]

\* The body of the loop, lines 59-84, for one tensor.
featureSpecOf(tensor) ==
    IF tensor.dtype \notin {"string", "int64", "float32"}
    THEN [error |-> "ValueError", spec |-> None]
    ELSE IF isSparseTensor(tensor)
    THEN IF ndims(tensor.shape) # <<2>>
         THEN [error |-> "ValueError", spec |-> None]
         ELSE [error |-> "", spec |-> <<VarLenFeature(tensor.dtype)>>]
    ELSE IF isTensor(tensor)
    THEN denseFeatureSpec(tensor)
    ELSE [error |-> "TypeError", spec |-> None]

\* tensors is an insertion-ordered dict, modelled as a sequence of
\* <<name, tensor>> pairs with distinct names.  The first failing tensor raises;
\* otherwise the result maps every name to its feature spec.
keys(tensors) == {tensors[i][1] : i \in 1..Len(tensors)}
lookup(tensors, name) ==
    tensors[CHOOSE i \in 1..Len(tensors) : tensors[i][1] = name][2]

feature_spec_from_batched_tensors(tensors) ==
    LET failing == {i \in 1..Len(tensors) : featureSpecOf(tensors[i][2]).error # ""}
    IN IF failing # {}
       THEN LET first == CHOOSE i \in failing : \A j \in failing : i <= j
            IN [error |-> featureSpecOf(tensors[first][2]).error, result |-> <<>>]
       ELSE [error |-> "",
             result |-> <<[name \in keys(tensors) |->
                             featureSpecOf(lookup(tensors, name)).spec[1]]>>]

-----------------------------------------------------------------------------
(* set_tensor_schema_override and _get_tensor_schema_overrides             *)
\* A variant that does not validate min_value and max_value.
overrideError_boundsUnchecked(tensor, min_value, max_value) ==
    IF ~isTensor(tensor) THEN "ValueError"
    ELSE IF tensor.dtype # "int64" THEN "ValueError"
    ELSE ""

\* A variant that does not validate the dtype.
overrideError_dtypeUnchecked(tensor, min_value, max_value) ==
    IF ~isTensor(tensor) THEN "ValueError"
    ELSE IF ~isTensor(min_value) THEN "ValueError"
    ELSE IF ~isTensor(max_value) THEN "ValueError"
    ELSE ""

\* The validation of lines 172-181: the error raised, or "".
overrideError(tensor, min_value, max_value) ==
    IF ~isTensor(tensor) THEN "ValueError"
    ELSE IF tensor.dtype # "int64" THEN "ValueError"
    ELSE IF ~isTensor(min_value) THEN "ValueError"
    ELSE IF ~isTensor(max_value) THEN "ValueError"
    ELSE ""

\* A variant that forgets the max collection.
recordOverride_maxForgotten(tensor, min_value, max_value) ==
    /\ tft_schema_override_tensor' = Append(tft_schema_override_tensor, tensor)
    /\ tft_schema_override_min' = Append(tft_schema_override_min, min_value)
    /\ tft_schema_override_max' = tft_schema_override_max

\* The three add_to_collection calls of lines 182-184.
recordOverride(tensor, min_value, max_value) ==
    /\ tft_schema_override_tensor' = Append(tft_schema_override_tensor, tensor)
    /\ tft_schema_override_min' = Append(tft_schema_override_min, min_value)
    /\ tft_schema_override_max' = Append(tft_schema_override_max, max_value)

\* zip(a, b): pairs up to the shorter length.
zip(a, b) ==
    LET n == IF Len(a) <= Len(b) THEN Len(a) ELSE Len(b)
    IN [i \in 1..n |-> <<a[i], b[i]>>]

\* A variant in which the first pair with a key wins.
dict_firstWins(pairs) ==
    [k \in {pairs[i][1] : i \in 1..Len(pairs)} |->
        pairs[CHOOSE i \in 1..Len(pairs) :
                 /\ pairs[i][1] = k
                 /\ \A j \in 1..(i - 1) : pairs[j][1] # k][2]]

\* dict(pairs): a later pair with the same key replaces an earlier one.
dict(pairs) ==
    [k \in {pairs[i][1] : i \in 1..Len(pairs)} |->
        pairs[CHOOSE i \in 1..Len(pairs) :
                 /\ pairs[i][1] = k
                 /\ \A j \in (i + 1)..Len(pairs) : pairs[j][1] # k][2]]

\* Lines 189-194: the two assertions, then the dict of (min, max) tensors.
get_tensor_schema_overrides ==
    IF \/ Len(tft_schema_override_tensor) # Len(tft_schema_override_min)
       \/ Len(tft_schema_override_tensor) # Len(tft_schema_override_max)
    THEN [error |-> "AssertionError", result |-> <<>>]
    ELSE [error |-> "",
          result |-> dict(zip(tft_schema_override_tensor,
                              zip(tft_schema_override_min,
                                  tft_schema_override_max)))]

-----------------------------------------------------------------------------
(* annotate and _get_schema_annotations                                    *)
\* The name of the k-th op called 'tft_schema_override_global_sentinel' in a
\* scope, and of its output: the graph appends _k to a name already taken.
sentinelName(scope, k) ==
    scoped(scope, TF_METADATA_EXTRA_ANNOTATION_GLOBAL
                     \o (IF k = 0 THEN <<>> ELSE <<"_", ToString(k)>>))
       \o <<":0">>

\* Line 219: tf.constant('unused', name=...) under the current name scope.
newSentinel(scope) ==
    LET taken == {tft_schema_override_annotation_tensor[i].name :
                     i \in 1..Len(tft_schema_override_annotation_tensor)}
        k == CHOOSE n \in 0..Len(tft_schema_override_annotation_tensor) :
                 /\ sentinelName(scope, n) \notin taken
                 /\ \A m \in 0..(n - 1) : sentinelName(scope, m) \in taken
    IN Tensor(sentinelName(scope, k), "string", TensorShape(<<>>))

\* Lines 218-226.  tensor is None or <<the anchor>>.
recordAnnotation(type_url, proto_message, tensor, scope) ==
    LET anchor == IF tensor = None THEN newSentinel(scope) ELSE tensor[1]
    IN /\ tft_schema_override_annotation_tensor' =
              Append(tft_schema_override_annotation_tensor, anchor)
       /\ tft_schema_override_annotation_type' =
              Append(tft_schema_override_annotation_type, type_url)
       /\ tft_schema_override_annotation_proto' =
              Append(tft_schema_override_annotation_proto, proto_message)

any_pb2_Any(type_url, value) == [type_url |-> type_url, value |-> value]

\* Lines 253-254: the payload of one entry, evaluated if it is a tensor.
protoValue(proto_value) ==
    IF isTensor(proto_value) THEN run(proto_value) ELSE proto_value.bytes

\* A variant that tests the whole name, scope path included.
isGlobal_wholeName(tensor) ==
    startswith(tensor.name, TF_METADATA_EXTRA_ANNOTATION_GLOBAL)

\* Lines 261-262: does the anchor stand for the schema as a whole?
isGlobal(tensor) ==
    LET segments == split(tensor.name, "/")
        tensor_name == segments[Len(segments)]
    IN startswith(tensor_name, TF_METADATA_EXTRA_ANNOTATION_GLOBAL)

\* The number of entries the loop of lines 249-265 visits.
annotationEntries ==
    Len(zip(tft_schema_override_annotation_tensor,
            zip(tft_schema_override_annotation_type,
                tft_schema_override_annotation_proto)))

\* A variant that calls session.run for literal payloads too.
fetchesOf_always(proto_value) == <<{proto_value}>>

\* Lines 253-254: the session.run calls one entry costs, each given as the set
\* of tensors it fetches.
fetchesOf(proto_value) ==
    IF isTensor(proto_value) THEN <<{proto_value}>> ELSE <<>>

\* defaultdict(list): tensor_annotations[tensor].append(annotation)
appendTo(tensor_annotations, tensor, annotation) ==
    [t \in DOMAIN tensor_annotations \cup {tensor} |->
        IF t # tensor THEN tensor_annotations[t]
        ELSE IF t \in DOMAIN tensor_annotations
        THEN Append(tensor_annotations[t], annotation)
        ELSE <<annotation>>]

\* A variant that keeps empty payloads.
annotationStep_emptyKept(prev, tensor, type_url, proto_value) ==
    LET runs == prev.runs \o fetchesOf(proto_value)
        annotation == any_pb2_Any(type_url, protoValue(proto_value))
    IN IF isGlobal(tensor)
       THEN [prev EXCEPT !.runs = runs,
                         !.global_annotations = Append(@, annotation)]
       ELSE [prev EXCEPT !.runs = runs,
                         !.tensor_annotations = appendTo(@, tensor, annotation)]

\* One iteration of the loop, lines 253-265, from the lists built so far.
annotationStep(prev, tensor, type_url, proto_value) ==
    LET runs == prev.runs \o fetchesOf(proto_value)
        value == protoValue(proto_value)
        annotation == any_pb2_Any(type_url, value)
    IN IF value = <<>>
       THEN [prev EXCEPT !.runs = runs]
       ELSE IF isGlobal(tensor)
       THEN [prev EXCEPT !.runs = runs,
                         !.global_annotations = Append(@, annotation)]
       ELSE [prev EXCEPT !.runs = runs,
                         !.tensor_annotations = appendTo(@, tensor, annotation)]

\* Lines 246-266 after the first n entries: the per-tensor lists, the global
\* list, and what each session.run call so far was given.
RECURSIVE annotationsUpTo(_)
annotationsUpTo(n) ==
    IF n = 0
    THEN [tensor_annotations |-> <<>>, global_annotations |-> <<>>, runs |-> <<>>]
    ELSE annotationStep(annotationsUpTo(n - 1),
                        tft_schema_override_annotation_tensor[n],
                        tft_schema_override_annotation_type[n],
                        tft_schema_override_annotation_proto[n])

get_schema_annotations == annotationsUpTo(annotationEntries)

-----------------------------------------------------------------------------
(* infer_feature_schema                                                    *)
IntDomain(min, max, is_categorical) ==
    [min |-> min, max |-> max, is_categorical |-> is_categorical]

\* Line 128.
valuesOf(tensor) == IF isSparseTensor(tensor) THEN tensor.values[1] ELSE tensor

\* A variant that evaluates the bounds whether or not there is a session.
tensorRanges_alwaysRun(overrides, session) ==
    [tensor \in DOMAIN overrides |->
        <<<<run(overrides[tensor][1])>>, <<run(overrides[tensor][2])>>>>]

\* Lines 116-121.  session is None or <<a session>>; overrides is the dict of
\* _get_tensor_schema_overrides.
tensorRanges(overrides, session) ==
    IF session = None
    THEN [tensor \in DOMAIN overrides |-> <<None, None>>]
    ELSE [tensor \in DOMAIN overrides |->
             <<<<run(overrides[tensor][1])>>, <<run(overrides[tensor][2])>>>>]

\* Lines 125-133: the domains dict.
domainsOf(features, tensor_ranges) ==
    [name \in {n \in keys(features) :
                  valuesOf(lookup(features, n)) \in DOMAIN tensor_ranges} |->
        LET range == tensor_ranges[valuesOf(lookup(features, name))]
        IN IntDomain(range[1], range[2], TRUE)]

\* Lines 134-136: the feature_annotations dict.
featureAnnotationsOf(features, tensor_annotations) ==
    [name \in {n \in keys(features) :
                  valuesOf(lookup(features, n)) \in DOMAIN tensor_annotations} |->
        tensor_annotations[valuesOf(lookup(features, name))]]

\* The whole call, lines 115-142.  The record keeps what the call computed on
\* the way (tensor_ranges, the resolved annotations, what each session.run call
\* was given); schema is <<the four arguments of schema_from_feature_spec>>, or
\* <<>> if the call raised.
infer_feature_schema(features, session) ==
    LET overrides == get_tensor_schema_overrides
        call == [op |-> "infer_feature_schema", features |-> features,
                 session |-> session, error |-> "", tensor_ranges |-> <<>>,
                 tensor_annotations |-> <<>>, global_annotations |-> <<>>,
                 runs |-> <<>>, schema |-> <<>>]
    IN IF overrides.error # ""
       THEN [call EXCEPT !.error = overrides.error]
       ELSE
       LET tensor_ranges == tensorRanges(overrides.result, session)
           fetched == UNION {{overrides.result[t][1], overrides.result[t][2]} :
                                t \in DOMAIN overrides.result}
           annotations == IF session = None
                          THEN annotationsUpTo(0)
                          ELSE get_schema_annotations
           runs == IF session = None THEN <<>>
                   ELSE <<fetched>> \o annotations.runs
           asserted == \A i \in 1..Len(features) :
                          valuesOf(features[i][2]) \in DOMAIN tensor_ranges
                             => valuesOf(features[i][2]).dtype = "int64"
           feature_spec == feature_spec_from_batched_tensors(features)
           seen == [call EXCEPT !.tensor_ranges = tensor_ranges, !.runs = runs,
                      !.tensor_annotations = annotations.tensor_annotations,
                      !.global_annotations = annotations.global_annotations]
       IN IF ~asserted THEN [seen EXCEPT !.error = "AssertionError"]
          ELSE IF feature_spec.error # ""
          THEN [seen EXCEPT !.error = feature_spec.error]
          ELSE [seen EXCEPT !.schema =
                   <<[feature_spec |-> feature_spec.result[1],
                      domains |-> domainsOf(features, tensor_ranges),
                      feature_annotations |->
                          featureAnnotationsOf(features,
                                               annotations.tensor_annotations),
                      global_annotations |-> annotations.global_annotations]>>]

-----------------------------------------------------------------------------
(* The calls a program makes, and their arguments.                         *)
\* set_tensor_schema_override: a dense int64 tensor with two different upper
\* bounds, the value stream of a sparse tensor, and one call for each
\* precondition violated alone (a sparse tensor, a float32 tensor, a literal
\* as min_value, a literal as max_value).
OverrideArgs ==
    {<<tInt, cZero, cFour>>, <<tInt, cZero, cNine>>, <<spValues, cZero, cFour>>,
     <<spInt, cZero, cFour>>, <<tScalar, cZero, cFour>>,
     <<tInt, Literal(<<"0">>), cFour>>, <<tInt, cZero, Literal(<<"9">>)>>}

\* annotate: literal and deferred payloads, empty and not; anchored to a
\* feature tensor, or to none from the top level and from inside name scopes.
annotateArgs(type_url, proto_message, tensor, scope) ==
    [type_url |-> type_url, proto_message |-> proto_message, tensor |-> tensor,
     scope |-> scope]
AnnotateArgs ==
    {annotateArgs("url1", Literal(<<"p">>), None, <<>>),
     annotateArgs("url2", pFull, None, <<"outer", "transform">>),
     annotateArgs("url1", Literal(<<>>), None, <<"transform">>),
     annotateArgs("url1", Literal(<<"p">>), <<tInt>>, <<>>),
     annotateArgs("url2", pFull, <<tNamed>>, <<>>),
     annotateArgs("url2", pEmpty, <<spValues>>, <<>>)}

\* infer_feature_schema: one feature, or a dense int64 feature and a second
\* one, among a dense, a sparse, a sentinel-named and a scalar tensor.
FeatureDicts ==
    {<<<<"f1", a>>>> : a \in {tInt, spInt, tNamed}}
    \cup {<<<<"f1", tInt>>, <<"f2", b>>>> : b \in {spInt, tNamed, tScalar}}
Sessions == {None, <<"session">>}

\* The entries recorded so far.
registrations ==
    Len(tft_schema_override_tensor) + Len(tft_schema_override_annotation_tensor)

NoCall == [op |-> "", error |-> ""]

Init ==
    /\ tft_schema_override_tensor = <<>>
    /\ tft_schema_override_min = <<>>
    /\ tft_schema_override_max = <<>>
    /\ tft_schema_override_annotation_tensor = <<>>
    /\ tft_schema_override_annotation_type = <<>>
    /\ tft_schema_override_annotation_proto = <<>>
    /\ ret = NoCall

\* set_tensor_schema_override(tensor, min_value, max_value)
SetTensorSchemaOverride ==
    \E args \in OverrideArgs :
        LET tensor == args[1]
            min_value == args[2]
            max_value == args[3]
            error == overrideError(tensor, min_value, max_value)
        IN /\ error = "" => registrations < MaxRegistrations
           /\ ret' = [op |-> "set_tensor_schema_override",
                      args |-> <<tensor, min_value, max_value>>, error |-> error]
           /\ IF error = ""
              THEN recordOverride(tensor, min_value, max_value)
              ELSE UNCHANGED overrideColls
           /\ UNCHANGED annotationColls

\* annotate(type_url, proto_message, tensor) under a name scope
Annotate ==
    \E a \in AnnotateArgs :
        /\ registrations < MaxRegistrations
        /\ recordAnnotation(a.type_url, a.proto_message, a.tensor, a.scope)
        /\ ret' = [op |-> "annotate", args |-> a, error |-> ""]
        /\ UNCHANGED overrideColls

\* infer_feature_schema(features, graph, session)
InferFeatureSchema ==
    \E features \in FeatureDicts, session \in Sessions :
        /\ ret' = infer_feature_schema(features, session)
        /\ UNCHANGED <<overrideColls, annotationColls>>

Next == SetTensorSchemaOverride \/ Annotate \/ InferFeatureSchema

Spec == Init /\ [][Next]_vars

-----------------------------------------------------------------------------
(* Feature-spec inference on its own, over tensors of every kind, dtype    *)
(* and shape class.                                                        *)
Shapes ==
    {UnknownShape, TensorShape(<<>>), TensorShape(<<None>>),
     TensorShape(<<<<2>>, <<3>>>>), TensorShape(<<None, <<2>>, None>>)}
DenseTensors ==
    {Tensor(<<"t", ":0">>, dtype, shape) :
        dtype \in {"string", "int64", "int32"}, shape \in Shapes}
SparseTensors ==
    {SparseTensor(Tensor(<<"v", ":0">>, "int64", TensorShape(<<None>>)), shape) :
        shape \in {TensorShape(<<None, None>>), TensorShape(<<None, None, None>>)}}
OtherTensors == {RaggedTensor("int64", TensorShape(<<None, None>>))}
BatchedTensorValues == DenseTensors \cup SparseTensors \cup OtherTensors

featureName(i) == "f" \o ToString(i)
BatchedTensors ==
    UNION {{[i \in 1..n |-> <<featureName(i), ts[i]>>] :
               ts \in [1..n -> BatchedTensorValues]} : n \in 1..MaxFeatures}

\* The collections are empty and a caller holds the dict it is about to pass.
InitFeatureSpec ==
    /\ tft_schema_override_tensor = <<>>
    /\ tft_schema_override_min = <<>>
    /\ tft_schema_override_max = <<>>
    /\ tft_schema_override_annotation_tensor = <<>>
    /\ tft_schema_override_annotation_type = <<>>
    /\ tft_schema_override_annotation_proto = <<>>
    /\ ret \in {[op |-> "", tensors |-> tensors, error |-> "", result |-> <<>>] :
                   tensors \in BatchedTensors}

\* _feature_spec_from_batched_tensors(tensors)
FeatureSpecFromBatchedTensors ==
    /\ ret.op = ""
    /\ LET r == feature_spec_from_batched_tensors(ret.tensors)
       IN ret' = [ret EXCEPT !.op = "_feature_spec_from_batched_tensors",
                             !.error = r.error, !.result = r.result]
    /\ UNCHANGED <<overrideColls, annotationColls>>

SpecFeatureSpec == InitFeatureSpec /\ [][FeatureSpecFromBatchedTensors]_vars

-----------------------------------------------------------------------------
(* Vocabulary of the properties.                                           *)
inferred == ret.op = "infer_feature_schema"
withSession == inferred /\ ret.session # None
called == ret.op = "_feature_spec_from_batched_tensors"

\* The tensors user code holds; any other anchor is a sentinel that annotate
\* made for a call without a tensor.
GraphTensors == {tInt, spValues, tNamed, tScalar, cZero, cFour, cNine, pFull, pEmpty}

overrideEntries == 1..Len(tft_schema_override_tensor)
annotationEntryIds == 1..Len(tft_schema_override_annotation_tensor)
anchorOf(i) == tft_schema_override_annotation_tensor[i]

\* The bytes entry i resolves to under a session.
payloadBytes(i) ==
    LET p == tft_schema_override_annotation_proto[i]
    IN IF p.kind = "Tensor" THEN run(p) ELSE p.bytes
recordOf(i) ==
    [type_url |-> tft_schema_override_annotation_type[i], value |-> payloadBytes(i)]
nonEmptyEntries == {i \in annotationEntryIds : payloadBytes(i) # <<>>}
sentinelEntries == {i \in nonEmptyEntries : anchorOf(i) \notin GraphTensors}
anchoredEntries == {i \in nonEmptyEntries : anchorOf(i) \in GraphTensors}

occurrences(seq, r) == Cardinality({k \in 1..Len(seq) : seq[k] = r})
RECURSIVE occurrencesIn(_, _, _)
\* How often r occurs in the lists f holds for the keys S.
occurrencesIn(f, S, r) ==
    IF S = {} THEN 0
    ELSE LET t == CHOOSE x \in S : TRUE
         IN occurrences(f[t], r) + occurrencesIn(f, S \ {t}, r)

\* The features of the last infer_feature_schema call whose value tensor is t.
featuresOn(t) ==
    {name \in keys(ret.features) :
        LET f == lookup(ret.features, name)
        IN (IF f.kind = "SparseTensor" THEN f.values[1] ELSE f) = t}
registered == Range(tft_schema_override_tensor)
\* The last registration of tensor t.
lastRegistration(t) ==
    CHOOSE i \in overrideEntries :
        /\ tft_schema_override_tensor[i] = t
        /\ \A j \in overrideEntries : tft_schema_override_tensor[j] = t => j <= i

-----------------------------------------------------------------------------
\* C1 as stated: without a session the call never fails on the overrides,
\* every registered tensor resolves to (None, None), and the domains mapping
\* given to the schema builder is empty.
C1_DomainsEmptyWithoutSession ==
    (inferred /\ ret.session = None) =>
        /\ ret.error # "AssertionError"
        /\ DOMAIN ret.tensor_ranges = registered
        /\ \A t \in DOMAIN ret.tensor_ranges : ret.tensor_ranges[t] = <<None, None>>
        /\ ret.schema # <<>> => DOMAIN ret.schema[1].domains = {}

\* C1 (amended): without a session the call never fails on the overrides,
\* every registered tensor resolves to (None, None), and the domains mapping
\* holds, for exactly the features whose value tensor is registered, a domain
\* that is categorical and has neither min nor max.
C1_NoBoundsWithoutSession ==
    (inferred /\ ret.session = None) =>
        /\ ret.error # "AssertionError"
        /\ DOMAIN ret.tensor_ranges = registered
        /\ \A t \in DOMAIN ret.tensor_ranges : ret.tensor_ranges[t] = <<None, None>>
        /\ ret.schema # <<>> =>
              LET domains == ret.schema[1].domains
              IN /\ DOMAIN domains = UNION {featuresOn(t) : t \in registered}
                 /\ \A name \in DOMAIN domains :
                       domains[name] =
                           [min |-> None, max |-> None, is_categorical |-> TRUE]

C1_Witness ==
    /\ inferred /\ ret.session = None /\ ret.schema # <<>>
    /\ DOMAIN ret.schema[1].domains # {}
    /\ DOMAIN ret.schema[1].domains # keys(ret.features)

-----------------------------------------------------------------------------
\* C2: a set_tensor_schema_override call whose tensor is not a dense Tensor or
\* not int64, or whose min_value or max_value is not a Tensor, raises
\* ValueError and leaves the three override collections as they were.
C2_InvalidOverrideRecordsNothing ==
    [][(/\ ret'.op = "set_tensor_schema_override"
        /\ \/ ret'.args[1].kind # "Tensor"
           \/ ret'.args[1].dtype # "int64"
           \/ ret'.args[2].kind # "Tensor"
           \/ ret'.args[3].kind # "Tensor")
       => (/\ ret'.error = "ValueError"
           /\ tft_schema_override_tensor' = tft_schema_override_tensor
           /\ tft_schema_override_min' = tft_schema_override_min
           /\ tft_schema_override_max' = tft_schema_override_max)]_vars

C2_Witness ==
    /\ ret.op = "set_tensor_schema_override"
    /\ ret.error = "ValueError"
    /\ ret.args[1].kind = "Tensor" /\ ret.args[1].dtype = "int64"
    /\ ret.args[2].kind = "Tensor" /\ ret.args[3].kind # "Tensor"
    /\ Len(tft_schema_override_tensor) = 2

-----------------------------------------------------------------------------
\* C3 as stated, where a payload is deferred: with a session,
\* infer_feature_schema makes exactly two session.run calls, one for the
\* overrides and one for all deferred payloads together, however many there are.
C3_TwoRunsPerInference ==
    (/\ withSession
     /\ \E i \in annotationEntryIds :
           tft_schema_override_annotation_proto[i].kind = "Tensor")
    => Len(ret.runs) = 2

\* C3 (amended): with a session, infer_feature_schema makes one session.run
\* call that fetches the min and max tensors of the overrides dict together,
\* and then one session.run call for each annotation entry whose payload is a
\* tensor, in registry order, fetching that payload alone.
C3_OneRunPerDeferredPayload ==
    withSession =>
        LET deferred == {i \in annotationEntryIds :
                            tft_schema_override_annotation_proto[i].kind = "Tensor"}
            position(i) == 1 + Cardinality({j \in deferred : j <= i})
        IN /\ Len(ret.runs) = 1 + Cardinality(deferred)
           /\ ret.runs[1] =
                 UNION {{tft_schema_override_min[lastRegistration(t)],
                         tft_schema_override_max[lastRegistration(t)]} :
                           t \in registered}
           /\ \A i \in deferred :
                 ret.runs[position(i)] = {tft_schema_override_annotation_proto[i]}

C3_Witness ==
    /\ withSession
    /\ Len(ret.runs) = 3
    /\ Len(tft_schema_override_annotation_tensor) = 3

-----------------------------------------------------------------------------
\* C4: with a session, a feature whose value tensor (the tensor, or the values
\* of a sparse tensor) is registered gets a categorical IntDomain whose min and
\* max are the evaluated bounds of the last registration of that tensor; a
\* feature whose value tensor is not registered gets no domain.
C4_LastOverrideBecomesDomain ==
    (withSession /\ ret.schema # <<>>) =>
        LET domains == ret.schema[1].domains
        IN /\ \A t \in registered : \A name \in featuresOn(t) :
                 /\ name \in DOMAIN domains
                 /\ domains[name] =
                       [min |-> <<run(tft_schema_override_min[lastRegistration(t)])>>,
                        max |-> <<run(tft_schema_override_max[lastRegistration(t)])>>,
                        is_categorical |-> TRUE]
           /\ \A name \in DOMAIN domains :
                 \E t \in registered : name \in featuresOn(t)

C4_Witness ==
    /\ withSession /\ ret.schema # <<>>
    /\ \E i, j \in overrideEntries :
          /\ i < j
          /\ tft_schema_override_tensor[i] = tft_schema_override_tensor[j]
          /\ tft_schema_override_max[i] # tft_schema_override_max[j]
          /\ featuresOn(tft_schema_override_tensor[i]) # {}
    /\ spValues \in registered /\ featuresOn(spValues) # {}

-----------------------------------------------------------------------------
\* The shape of the i-th tensor given to feature-spec inference.
shapeOf(i) == ret.tensors[i][2].shape
supported(i) == ret.tensors[i][2].dtype \in {"string", "int64", "float32"}
denseInputs == {i \in 1..Len(ret.tensors) : ret.tensors[i][2].kind = "Tensor"}
staticDims(i) ==
    \A k \in 2..Len(shapeOf(i).dims) : shapeOf(i).dims[k] # None

\* C5 as stated: a dense tensor gets a fixed-shape feature only if its rank is
\* at least 2 and its non-batch dimensions are known; a dense tensor of a
\* supported dtype whose rank is unknown, 0 or 1 makes the call fail, and no
\* mapping is returned.
C5_DenseNeedsRankTwo ==
    called =>
        \A i \in denseInputs :
            /\ ret.result # <<>> =>
                  /\ shapeOf(i).rankKnown /\ Len(shapeOf(i).dims) >= 2
                  /\ staticDims(i)
            /\ (supported(i) /\ (~shapeOf(i).rankKnown \/ Len(shapeOf(i).dims) <= 1))
                  => (ret.error # "" /\ ret.result = <<>>)

\* C5 (amended): a dense tensor gets a fixed-shape feature, of its non-batch
\* dimensions and its dtype, only if its rank is at least 1 and its non-batch
\* dimensions are known; a dense tensor of a supported dtype whose rank is
\* unknown or 0 makes the call fail, with ValueError if it is the first tensor
\* of the dict, and no mapping is returned.
C5_DenseNeedsRankOne ==
    called =>
        \A i \in denseInputs :
            /\ ret.result # <<>> =>
                  /\ shapeOf(i).rankKnown /\ Len(shapeOf(i).dims) >= 1
                  /\ staticDims(i)
                  /\ ret.result[1][ret.tensors[i][1]] =
                        [kind |-> "FixedLenFeature",
                         shape |-> [k \in 1..(Len(shapeOf(i).dims) - 1) |->
                                       shapeOf(i).dims[k + 1]],
                         dtype |-> ret.tensors[i][2].dtype]
            /\ (supported(i) /\ (~shapeOf(i).rankKnown \/ Len(shapeOf(i).dims) = 0))
                  => /\ ret.error # "" /\ ret.result = <<>>
                     /\ i = 1 => ret.error = "ValueError"

C5_Witness ==
    /\ called /\ ret.result # <<>>
    /\ \E i, j \in denseInputs :
          /\ Len(shapeOf(i).dims) = 1
          /\ Len(shapeOf(j).dims) = 2 /\ shapeOf(j).dims[1] # None

-----------------------------------------------------------------------------
\* C6: with a session, a non-empty annotation registered with a tensor is in
\* the list of that tensor, reaches every feature whose value tensor it is, and
\* is not in the global list, which holds the annotations registered without
\* a tensor and no others.
C6_AnchoredAnnotationNeverGlobal ==
    withSession =>
        /\ \A i \in anchoredEntries :
              /\ anchorOf(i) \in DOMAIN ret.tensor_annotations
              /\ occurrences(ret.tensor_annotations[anchorOf(i)], recordOf(i)) >= 1
              /\ ret.schema # <<>> =>
                    \A name \in featuresOn(anchorOf(i)) :
                        /\ name \in DOMAIN ret.schema[1].feature_annotations
                        /\ occurrences(ret.schema[1].feature_annotations[name],
                                       recordOf(i)) >= 1
        /\ Len(ret.global_annotations) = Cardinality(sentinelEntries)

-----------------------------------------------------------------------------
\* C7: with a session, a non-empty annotation registered without a tensor is
\* in the global list, and its sentinel keys no per-tensor list and reaches no
\* feature, whatever scope path and suffix the sentinel's name carries.
C7_UnanchoredAnnotationIsGlobal ==
    withSession =>
        /\ \A i \in sentinelEntries :
              /\ occurrences(ret.global_annotations, recordOf(i)) >= 1
              /\ anchorOf(i) \notin DOMAIN ret.tensor_annotations
              /\ featuresOn(anchorOf(i)) = {}
        /\ Len(ret.global_annotations) >= Cardinality(sentinelEntries)
        /\ ret.schema # <<>> =>
              ret.schema[1].global_annotations = ret.global_annotations

C7_Witness ==
    /\ withSession /\ ret.schema # <<>>
    /\ \E i, j \in sentinelEntries :
          /\ occurrences(anchorOf(i).name, "/") = 2
          /\ occurrences(anchorOf(j).name, "1") = 1

-----------------------------------------------------------------------------
\* C8: with a session, an entry whose resolved payload is empty adds no record
\* and raises nothing; an entry whose resolved payload is not empty adds one
\* record, of its type_url and those bytes, to the global list or to the list
\* of its anchor, and to no other.
C8_OneRecordPerNonEmptyPayload ==
    withSession =>
        LET lists == ret.tensor_annotations
            total(r) == occurrences(ret.global_annotations, r)
                           + occurrencesIn(lists, DOMAIN lists, r)
        IN /\ \A i \in nonEmptyEntries :
                 /\ total(recordOf(i)) =
                       Cardinality({j \in nonEmptyEntries : recordOf(j) = recordOf(i)})
                 /\ \/ occurrences(ret.global_annotations, recordOf(i)) >= 1
                    \/ /\ anchorOf(i) \in DOMAIN lists
                       /\ occurrences(lists[anchorOf(i)], recordOf(i)) >= 1
           /\ \A r \in Range(ret.global_annotations)
                       \cup UNION {Range(lists[t]) : t \in DOMAIN lists} :
                 \E i \in nonEmptyEntries : recordOf(i) = r
           /\ \A t \in DOMAIN lists : \E i \in nonEmptyEntries : anchorOf(i) = t

C8_Witness ==
    /\ withSession
    /\ Cardinality(nonEmptyEntries) = 2
    /\ \E i \in annotationEntryIds : i \notin nonEmptyEntries
    /\ ret.global_annotations # <<>>
    /\ DOMAIN ret.tensor_annotations # {}

-----------------------------------------------------------------------------
\* C9: after any calls of set_tensor_schema_override and annotate the three
\* override collections have one length and the three annotation collections
\* have one length, the last entries are those of the last successful call,
\* and the length assertions of _get_tensor_schema_overrides hold.
C9_ParallelCollectionsAligned ==
    /\ Len(tft_schema_override_tensor) = Len(tft_schema_override_min)
    /\ Len(tft_schema_override_tensor) = Len(tft_schema_override_max)
    /\ Len(tft_schema_override_annotation_tensor) =
          Len(tft_schema_override_annotation_type)
    /\ Len(tft_schema_override_annotation_tensor) =
          Len(tft_schema_override_annotation_proto)
    /\ get_tensor_schema_overrides.error = ""
    /\ (ret.op = "set_tensor_schema_override" /\ ret.error = "") =>
          LET n == Len(tft_schema_override_tensor)
          IN /\ n >= 1
             /\ <<tft_schema_override_tensor[n], tft_schema_override_min[n],
                  tft_schema_override_max[Len(tft_schema_override_max)]>> = ret.args
    /\ ret.op = "annotate" =>
          LET n == Len(tft_schema_override_annotation_tensor)
          IN /\ n >= 1
             /\ tft_schema_override_annotation_type[
                    Len(tft_schema_override_annotation_type)] = ret.args.type_url
             /\ tft_schema_override_annotation_proto[
                    Len(tft_schema_override_annotation_proto)] = ret.args.proto_message
             /\ ret.args.tensor # None =>
                   tft_schema_override_annotation_tensor[n] = ret.args.tensor[1]

C9_Witness ==
    /\ ret.op = "set_tensor_schema_override" /\ ret.error = "ValueError"
    /\ Len(tft_schema_override_tensor) = 1
    /\ Len(tft_schema_override_annotation_tensor) = 2

-----------------------------------------------------------------------------
\* C10: when the override collections are written only by
\* set_tensor_schema_override, no infer_feature_schema call fails the
\* assertion that a feature's value tensor found in tensor_ranges is int64.
C10_DtypeAssertionHolds ==
    inferred =>
        /\ ret.error # "AssertionError"
        /\ \A i \in 1..Len(ret.features) :
              LET f == ret.features[i][2]
                  values == IF f.kind = "SparseTensor" THEN f.values[1] ELSE f
              IN values \in DOMAIN ret.tensor_ranges => values.dtype = "int64"

C10_Witness ==
    /\ inferred /\ ret.error = ""
    /\ spValues \in DOMAIN ret.tensor_ranges
    /\ \E i \in 1..Len(ret.features) : ret.features[i][2] = spInt
    /\ \E i \in 1..Len(ret.features) :
          ret.features[i][2] \notin DOMAIN ret.tensor_ranges

====
